---- MODULE Spec2Model ----
(***************************************************************************)
(* Model of the cfp-radar collection pipeline: name normalisation,         *)
(* deduplication by (normalised name, start date), completeness scoring,   *)
(* the orchestration of the source adapters, relevance scoring, CFP        *)
(* enrichment, the confs.tech adapter and the event store's merge.         *)
(*                                                                         *)
(* Text is modelled as a sequence of one-character strings, a date as a    *)
(* record [year, month, day], a float score in hundredths (0.3 is 30).     *)
(***************************************************************************)
EXTENDS Integers, Sequences, FiniteSets, TLC

VARIABLES
    dd_pc,        \* deduplicate_events: "start" | "done"
    dd_events,    \* deduplicate_events: the argument `events`
    dd_unique,    \* deduplicate_events: the returned list
    file,         \* EventStore: the backing file, [exists, content]
    st_status,    \* EventStore.merge: outcome of the last call, "none" | "ok" | "load_failed" | "save_failed"
    st_batch,     \* EventStore.merge: the argument `new_events` of the last call
    st_repeat,    \* EventStore.merge: the last call repeated the batch of a successful call right before it
    co_pc,        \* collect_all_events: "idle" | "gathering" | "returned" | "raised"
    co_today,     \* collect_all_events: date.today()
    co_tasks,     \* collect_all_events: the adapter tasks, each [state, events], state "pending" | "ok" | "exc"
    co_all_events,\* collect_all_events: all_events
    co_unique,    \* collect_all_events: unique_events
    co_future,    \* collect_all_events: future_events
    co_merges,    \* collect_all_events: calls of store.merge made so far
    sc_pc,        \* relevance scoring: "idle" | "start" | "topic" | "conf" | "ai"
    sc_event,     \* calculate_topic_relevance: the argument `event`
    sc_conf,      \* _calculate_relevance: the confs.tech record and its category, [conf, category]
    sc_score,     \* the relevance score computed, in hundredths
    en_pc,        \* enrich_event_cfp: "idle" | "start" | "returned" | "raised"
    en_event,     \* enrich_event_cfp: the argument `event` as it was at the call
    en_result,    \* enrich_event_cfp: the event object at the end of the call
    en_lookups,   \* enrich_event_cfp: calls of web_search.extract_cfp_details
    fc_pc,        \* fetch_conferences: "idle" | "fetching" | "returned" | "raised"
    fc_i,         \* fetch_conferences: index in CATEGORIES of the next category
    fc_events,    \* fetch_conferences: events
    fc_log,       \* fetch_conferences: the response met for each category so far, [kind, data]
    nf_pc,        \* check_upcoming_cfps: "idle" | "start" | "returned" | "raised"
    nf_today,     \* check_upcoming_cfps: date.today()
    nf_days,      \* check_upcoming_cfps: the argument `days`
    nf_webhook,   \* notifier: SLACK_WEBHOOK_URL is set
    nf_upcoming,  \* check_upcoming_cfps: the returned list
    nf_posts,     \* send_slack_notifications: the events a message was posted for
    se_pc,        \* search_events: "idle" | "searching" | "returned"
    se_key,       \* web_search: GEMINI_API_KEY is set
    se_i,         \* search_events: index in TARGET_COUNTRIES of the next country
    se_events,    \* search_events: events
    se_log        \* search_events: what each country's query met so far, [kind, items]

ddVars == <<dd_pc, dd_events, dd_unique>>

stVars == <<file, st_status, st_batch, st_repeat>>

coVars == <<co_pc, co_today, co_tasks, co_all_events, co_unique, co_future, co_merges>>

scVars == <<sc_pc, sc_event, sc_conf, sc_score>>

enVars == <<en_pc, en_event, en_result, en_lookups>>

fcVars == <<fc_pc, fc_i, fc_events, fc_log>>

nfVars == <<nf_pc, nf_today, nf_days, nf_webhook, nf_upcoming, nf_posts>>

seVars == <<se_pc, se_key, se_i, se_events, se_log>>

(***************************************************************************)
(* Bounds of the model.                                                    *)
(***************************************************************************)
\* longest input list handed to deduplicate_events
MaxLen == 3

\* longest batch handed to EventStore.merge
MaxBatch == 2

\* longest list one adapter task returns to collect_all_events
MaxTaskEvents == 1

\* most records in one confs.tech category file
MaxConfs == 1

\* most events in the store that check_upcoming_cfps reads
MaxStored == 3

\* most items in the events array of one AI response
MaxItems == 3

(***************************************************************************)
(* Text.                                                                   *)
(***************************************************************************)
UpperChars == <<"A","B","C","D","E","F","G","H","I","J","K","L","M",
                "N","O","P","Q","R","S","T","U","V","W","X","Y","Z">>

LowerChars == <<"a","b","c","d","e","f","g","h","i","j","k","l","m",
                "n","o","p","q","r","s","t","u","v","w","x","y","z">>

DigitChars == <<"0","1","2","3","4","5","6","7","8","9">>

Range(s) == { s[i] : i \in DOMAIN s }

\* str.lower() on one character
LowerChar(c) ==
    IF c \in Range(UpperChars)
    THEN LowerChars[CHOOSE i \in DOMAIN UpperChars : UpperChars[i] = c]
    ELSE c

\* str.lower()
Lower(s) == [i \in DOMAIN s |-> LowerChar(s[i])]

\* regex \s
IsSpace(c) == c \in {" ", "\t", "\n"}

\* regex \d
IsDigit(c) == c \in Range(DigitChars)

\* regex \w
IsWord(c) == c \in Range(UpperChars) \cup Range(LowerChars) \cup Range(DigitChars) \cup {"_"}

\* s[i..] starts with the literal w
StartsWithAt(s, i, w) ==
    /\ i + Len(w) - 1 <= Len(s)
    /\ \A k \in 1..Len(w) : s[i + k - 1] = w[k]

\* the literal `sub` occurs in s (Python's `sub in s`)
IsSubstring(sub, s) ==
    \E i \in 1..(Len(s) + 1) : StartsWithAt(s, i, sub)

\* first index >= i holding a non-whitespace character (Len(s)+1 if none): greedy \s*
RECURSIVE SkipSpace(_, _)
SkipSpace(s, i) ==
    IF i <= Len(s) /\ IsSpace(s[i]) THEN SkipSpace(s, i + 1) ELSE i

\* the words of the alternation, in the order the regex tries them
SuffixWords == << <<"c","o","n","f","e","r","e","n","c","e">>,
                  <<"c","o","n","f">>,
                  <<"s","u","m","m","i","t">>,
                  <<"m","e","e","t","u","p">> >>

\* length matched at j by (20\d{2}|conference|conf|summit|meetup), 0 if none matches
SuffixMatchLen(s, j) ==
    IF /\ j + 3 <= Len(s)
       /\ s[j] = "2" /\ s[j + 1] = "0"
       /\ IsDigit(s[j + 2]) /\ IsDigit(s[j + 3])
    THEN 4
    ELSE IF \E w \in DOMAIN SuffixWords : StartsWithAt(s, j, SuffixWords[w])
    THEN LET first == CHOOSE w \in DOMAIN SuffixWords :
                          /\ StartsWithAt(s, j, SuffixWords[w])
                          /\ \A v \in 1..(w - 1) : ~StartsWithAt(s, j, SuffixWords[v])
         IN  Len(SuffixWords[first])
    ELSE 0

\* re.sub(r"\s*(20\d{2}|conference|conf|summit|meetup)\s*", " ", s), scanning from i
RECURSIVE SubSuffixes(_, _)
SubSuffixes(s, i) ==
    IF i > Len(s) THEN <<>>
    ELSE LET j == SkipSpace(s, i)
             m == IF j <= Len(s) THEN SuffixMatchLen(s, j) ELSE 0
         IN  IF m > 0
             THEN <<" ">> \o SubSuffixes(s, SkipSpace(s, j + m))
             ELSE <<s[i]>> \o SubSuffixes(s, i + 1)

\* re.sub(r"[^\w\s]", "", s)
StripPunctuation(s) == SelectSeq(s, LAMBDA c : IsWord(c) \/ IsSpace(c))

\* " ".join(s.split()), scanning from i; `open` says a word has been emitted
RECURSIVE CollapseSpace(_, _, _)
CollapseSpace(s, i, open) ==
    IF i > Len(s) THEN <<>>
    ELSE IF IsSpace(s[i]) THEN CollapseSpace(s, i + 1, open)
    ELSE IF open /\ i > 1 /\ IsSpace(s[i - 1])
         THEN <<" ", s[i]>> \o CollapseSpace(s, i + 1, TRUE)
         ELSE <<s[i]>> \o CollapseSpace(s, i + 1, TRUE)

\* _normalize_name
_normalize_name(name) ==
    CollapseSpace(StripPunctuation(SubSuffixes(Lower(name), 1)), 1, FALSE)

\* "KubeCon 2024", "kube-con" and "DevOps Days"
DedupNames == { <<"K","u","b","e","C","o","n"," ","2","0","2","4">>,
                <<"k","u","b","e","-","c","o","n">>,
                <<"D","e","v","O","p","s"," ","D","a","y","s">> }

\* every name an event of the model carries
AllNames == DedupNames

\* _normalize_name over the names of the model, computed once per name
NormalizedName == [n \in AllNames |-> _normalize_name(n)]

(***************************************************************************)
(* Dates.                                                                  *)
(***************************************************************************)
Date(y, m, d) == [year |-> y, month |-> m, day |-> d]

\* the value of an optional date field that is None
NoDate == [year |-> 0, month |-> 0, day |-> 0]

TwoDigits(n) == <<DigitChars[(n \div 10) + 1], DigitChars[(n % 10) + 1]>>

\* date.isoformat(): "YYYY-MM-DD"
isoformat(dt) ==
    TwoDigits(dt.year \div 100) \o TwoDigits(dt.year % 100)
        \o <<"-">> \o TwoDigits(dt.month) \o <<"-">> \o TwoDigits(dt.day)

\* int() of one decimal digit
DigitVal(c) == (CHOOSE i \in DOMAIN DigitChars : DigitChars[i] = c) - 1

DaysInMonth(y, m) ==
    IF m \in {4, 6, 9, 11} THEN 30
    ELSE IF m # 2 THEN 31
    ELSE IF (y % 4 = 0 /\ y % 100 # 0) \/ y % 400 = 0 THEN 29
    ELSE 28

\* date.fromisoformat(s) for a str s: [ok, date]; ok = FALSE stands for ValueError
fromisoformat(s) ==
    IF /\ Len(s) = 10
       /\ s[5] = "-" /\ s[8] = "-"
       /\ \A i \in {1, 2, 3, 4, 6, 7, 9, 10} : IsDigit(s[i])
    THEN LET y == 1000 * DigitVal(s[1]) + 100 * DigitVal(s[2])
                      + 10 * DigitVal(s[3]) + DigitVal(s[4])
             m == 10 * DigitVal(s[6]) + DigitVal(s[7])
             d == 10 * DigitVal(s[9]) + DigitVal(s[10])
         IN  IF y >= 1 /\ m \in 1..12 /\ d >= 1 /\ d <= DaysInMonth(y, m)
             THEN [ok |-> TRUE, date |-> Date(y, m, d)]
             ELSE [ok |-> FALSE, date |-> NoDate]
    ELSE [ok |-> FALSE, date |-> NoDate]

\* date.__lt__ / __ge__: chronological order
DateLT(a, b) ==
    \/ a.year < b.year
    \/ a.year = b.year /\ a.month < b.month
    \/ a.year = b.year /\ a.month = b.month /\ a.day < b.day

DateGE(a, b) == ~DateLT(a, b)

(***************************************************************************)
(* Events.                                                                 *)
(***************************************************************************)
\* the value of an optional string field that is None
NoneStr == "None"

Event(name, start_date, end_date, topics, cfp_deadline, cfp_url, website, description, relevance_score, last_updated) ==
    [name |-> name, city |-> "Bengaluru", country |-> "India",
     start_date |-> start_date, end_date |-> end_date,
     event_type |-> "conference", topics |-> topics,
     cfp_deadline |-> cfp_deadline, cfp_url |-> cfp_url,
     website |-> website, description |-> description,
     relevance_score |-> relevance_score, last_updated |-> last_updated]

\* _event_completeness
_event_completeness(event) ==
      (IF event.description # "" THEN 1 ELSE 0)
    + (IF event.cfp_deadline # NoDate THEN 2 ELSE 0)
    + (IF event.cfp_url # NoneStr /\ event.cfp_url # "" THEN 2 ELSE 0)
    + (IF event.website # "" THEN 1 ELSE 0)
    + (IF event.topics # <<>> THEN Len(event.topics) ELSE 0)
    + (IF event.end_date # NoDate THEN 1 ELSE 0)

\* a dedup key that leaves the start date out
DedupKey_NameOnly(event) == <<NormalizedName[event.name], <<>>>>

\* the dedup key of deduplicate_events
DedupKey(event) == <<NormalizedName[event.name], isoformat(event.start_date)>>

\* list.remove(x): drops the first element equal to x
RECURSIVE ListRemove(_, _)
ListRemove(list, x) ==
    IF list = <<>> THEN <<>>
    ELSE IF Head(list) = x THEN Tail(list)
    ELSE <<Head(list)>> \o ListRemove(Tail(list), x)

\* the dict `seen` without entries
EmptyDict == [k \in {} |-> NoneStr]

\* the loop with the replacement dropping the head of the list, not the kept event
RECURSIVE DedupLoop_PopFirst(_, _, _, _)
DedupLoop_PopFirst(events, i, seen, unique) ==
    IF i > Len(events) THEN unique
    ELSE LET event == events[i]
             key   == DedupKey(event)
         IN  IF key \notin DOMAIN seen
             THEN DedupLoop_PopFirst(events, i + 1, (key :> event) @@ seen,
                                     Append(unique, event))
             ELSE IF _event_completeness(event) > _event_completeness(seen[key])
             THEN DedupLoop_PopFirst(events, i + 1, (key :> event) @@ seen,
                                     Append(Tail(unique), event))
             ELSE DedupLoop_PopFirst(events, i + 1, seen, unique)

\* the loop with the replaced event left in the list
RECURSIVE DedupLoop_NoRemove(_, _, _, _)
DedupLoop_NoRemove(events, i, seen, unique) ==
    IF i > Len(events) THEN unique
    ELSE LET event == events[i]
             key   == DedupKey(event)
         IN  IF key \notin DOMAIN seen
             THEN DedupLoop_NoRemove(events, i + 1, (key :> event) @@ seen,
                                     Append(unique, event))
             ELSE IF _event_completeness(event) > _event_completeness(seen[key])
             THEN DedupLoop_NoRemove(events, i + 1, (key :> event) @@ seen,
                                     Append(unique, event))
             ELSE DedupLoop_NoRemove(events, i + 1, seen, unique)

\* the loop with the replacement made on a greater or equal score
RECURSIVE DedupLoop_ReplaceOnTie(_, _, _, _)
DedupLoop_ReplaceOnTie(events, i, seen, unique) ==
    IF i > Len(events) THEN unique
    ELSE LET event == events[i]
             key   == DedupKey(event)
         IN  IF key \notin DOMAIN seen
             THEN DedupLoop_ReplaceOnTie(events, i + 1, (key :> event) @@ seen,
                                         Append(unique, event))
             ELSE IF _event_completeness(event) >= _event_completeness(seen[key])
             THEN DedupLoop_ReplaceOnTie(events, i + 1, (key :> event) @@ seen,
                                         Append(ListRemove(unique, seen[key]), event))
             ELSE DedupLoop_ReplaceOnTie(events, i + 1, seen, unique)

\* the loop with the replacement put into the slot of the replaced event
RECURSIVE DedupLoop_ReplaceInPlace(_, _, _, _)
DedupLoop_ReplaceInPlace(events, i, seen, unique) ==
    IF i > Len(events) THEN unique
    ELSE LET event == events[i]
             key   == DedupKey(event)
         IN  IF key \notin DOMAIN seen
             THEN DedupLoop_ReplaceInPlace(events, i + 1, (key :> event) @@ seen,
                                           Append(unique, event))
             ELSE IF _event_completeness(event) > _event_completeness(seen[key])
             THEN DedupLoop_ReplaceInPlace(events, i + 1, (key :> event) @@ seen,
                      [k \in DOMAIN unique |->
                          IF unique[k] = seen[key] THEN event ELSE unique[k]])
             ELSE DedupLoop_ReplaceInPlace(events, i + 1, seen, unique)

\* the loop with the comparison reversed: a less complete duplicate replaces
RECURSIVE DedupLoop_ReplaceWhenLess(_, _, _, _)
DedupLoop_ReplaceWhenLess(events, i, seen, unique) ==
    IF i > Len(events) THEN unique
    ELSE LET event == events[i]
             key   == DedupKey(event)
         IN  IF key \notin DOMAIN seen
             THEN DedupLoop_ReplaceWhenLess(events, i + 1, (key :> event) @@ seen,
                                            Append(unique, event))
             ELSE IF _event_completeness(event) < _event_completeness(seen[key])
             THEN DedupLoop_ReplaceWhenLess(events, i + 1, (key :> event) @@ seen,
                                            Append(ListRemove(unique, seen[key]), event))
             ELSE DedupLoop_ReplaceWhenLess(events, i + 1, seen, unique)

\* the body of the loop of deduplicate_events, from events[i] on
RECURSIVE DedupLoop(_, _, _, _)
DedupLoop(events, i, seen, unique) ==
    IF i > Len(events) THEN unique
    ELSE LET event == events[i]
             key   == DedupKey(event)
         IN  IF key \notin DOMAIN seen
             THEN DedupLoop(events, i + 1, (key :> event) @@ seen,
                            Append(unique, event))
             ELSE IF _event_completeness(event) > _event_completeness(seen[key])
             THEN DedupLoop(events, i + 1, (key :> event) @@ seen,
                            Append(ListRemove(unique, seen[key]), event))
             ELSE DedupLoop(events, i + 1, seen, unique)

\* deduplicate_events
deduplicate_events(events) ==
    IF events = <<>> THEN <<>> ELSE DedupLoop(events, 1, EmptyDict, <<>>)

(***************************************************************************)
(* The events deduplicate_events is applied to.                           *)
(***************************************************************************)
\* two start dates one day apart
DedupDates == { Date(2025, 6, 1), Date(2025, 6, 2) }

\* the optional fields of an event: none, a description, a website, a CFP URL
Profiles == { [description |-> "",     website |-> "",          cfp_url |-> NoneStr],
              [description |-> "text", website |-> "",          cfp_url |-> NoneStr],
              [description |-> "",     website |-> "https://w", cfp_url |-> NoneStr],
              [description |-> "",     website |-> "",          cfp_url |-> "https://cfp"] }

DedupUniverse ==
    { Event(n, d, NoDate, <<>>, NoDate, p.cfp_url, p.website, p.description, 30, 0) :
        n \in DedupNames, d \in DedupDates, p \in Profiles }

\* the lists over S of length at most n
SeqsUpTo(S, n) == UNION { [1..k -> S] : k \in 0..n }

(***************************************************************************)
(* deduplicate_events applied to any list of at most MaxLen events.        *)
(***************************************************************************)
DedupIdle == dd_pc = "idle" /\ dd_events = <<>> /\ dd_unique = <<>>

DedupInit ==
    /\ dd_pc = "start"
    /\ dd_events \in SeqsUpTo(DedupUniverse, MaxLen)
    /\ dd_unique = <<>>

DedupCall ==
    /\ dd_pc = "start"
    /\ dd_unique' = deduplicate_events(dd_events)
    /\ dd_pc' = "done"
    /\ UNCHANGED dd_events


(***************************************************************************)
(* EventStore: the persisted collection and its merge.                     *)
(***************************************************************************)
\* JSON null in the backing file
JsonNull == <<>>

\* an Event as it is written to the backing file: dates as ISO strings
Event_to_dict(e) ==
    [e EXCEPT !.start_date = isoformat(e.start_date),
              !.end_date = IF e.end_date = NoDate THEN JsonNull ELSE isoformat(e.end_date),
              !.cfp_deadline = IF e.cfp_deadline = NoDate THEN JsonNull
                               ELSE isoformat(e.cfp_deadline)]

\* an Event as it is read back from the backing file
Event_from_dict(d) ==
    [d EXCEPT !.start_date = fromisoformat(d.start_date).date,
              !.end_date = IF d.end_date = JsonNull THEN NoDate
                           ELSE fromisoformat(d.end_date).date,
              !.cfp_deadline = IF d.cfp_deadline = JsonNull THEN NoDate
                               ELSE fromisoformat(d.cfp_deadline).date]

RECURSIVE DumpAll(_)
DumpAll(events) ==
    IF events = <<>> THEN <<>>
    ELSE <<Event_to_dict(Head(events))>> \o DumpAll(Tail(events))

RECURSIVE ParseAll(_)
ParseAll(dicts) ==
    IF dicts = <<>> THEN <<>>
    ELSE <<Event_from_dict(Head(dicts))>> \o ParseAll(Tail(dicts))

\* a backing path that does not exist
MissingFile == [exists |-> FALSE, content |-> <<>>]

\* EventStore.load: the empty collection for a missing path, else the parsed document
EventStore_load(f) == IF f.exists THEN ParseAll(f.content) ELSE <<>>

\* the collection EventStore.merge computes from the loaded one and new_events
EventStore_merged(existing, new_events) == deduplicate_events(existing \o new_events)

\* a write that leaves a truncated document behind when it fails
EventStore_write_Truncating(old, events, succeeds) ==
    IF succeeds THEN [exists |-> TRUE, content |-> DumpAll(events)]
    ELSE [exists |-> TRUE, content |-> <<>>]

\* the write of EventStore.merge: the whole document replaces the file, or the
\* file keeps its prior content
EventStore_write(old, events, succeeds) ==
    IF succeeds THEN [exists |-> TRUE, content |-> DumpAll(events)] ELSE old

\* the events the merged batches are drawn from: "KubeCon 2024" bare and
\* with a CFP URL, "kube-con" bare (the same key), "DevOps Days" bare (another key)
StoreUniverse ==
    { Event(<<"K","u","b","e","C","o","n"," ","2","0","2","4">>, Date(2025, 6, 1),
            NoDate, <<>>, NoDate, NoneStr, "", "", 30, 0),
      Event(<<"K","u","b","e","C","o","n"," ","2","0","2","4">>, Date(2025, 6, 1),
            NoDate, <<>>, NoDate, "https://cfp", "", "", 30, 0),
      Event(<<"k","u","b","e","-","c","o","n">>, Date(2025, 6, 1),
            NoDate, <<>>, NoDate, NoneStr, "", "", 30, 0),
      Event(<<"D","e","v","O","p","s"," ","D","a","y","s">>, Date(2025, 6, 1),
            NoDate, <<>>, NoDate, NoneStr, "", "", 30, 0) }

Batches == SeqsUpTo(StoreUniverse, MaxBatch)

StoreIdle ==
    /\ file = MissingFile
    /\ st_status = "none"
    /\ st_batch = <<>>
    /\ st_repeat = FALSE

\* a fresh store: the backing path is missing, or holds the empty collection
StoreInit ==
    /\ file \in {MissingFile, [exists |-> TRUE, content |-> <<>>]}
    /\ st_status = "none"
    /\ st_batch = <<>>
    /\ st_repeat = FALSE

\* merge(new_events) runs to the end
MergeOk(new_events) ==
    /\ file' = EventStore_write(file,
                   EventStore_merged(EventStore_load(file), new_events), TRUE)
    /\ st_status' = "ok"
    /\ st_batch' = new_events
    /\ st_repeat' = (st_status = "ok" /\ st_batch = new_events)

\* merge(new_events) fails while reading the backing file
MergeLoadFails(new_events) ==
    /\ file.exists
    /\ file' = file
    /\ st_status' = "load_failed"
    /\ st_batch' = new_events
    /\ st_repeat' = FALSE

\* merge(new_events) fails while writing the merged collection
MergeSaveFails(new_events) ==
    /\ file' = EventStore_write(file,
                   EventStore_merged(EventStore_load(file), new_events), FALSE)
    /\ st_status' = "save_failed"
    /\ st_batch' = new_events
    /\ st_repeat' = FALSE


(***************************************************************************)
(* collect_all_events: the adapter tasks run concurrently; when all have   *)
(* finished the results are aggregated, deduplicated, filtered, sorted and *)
(* merged into the store.                                                  *)
(***************************************************************************)
\* the events the adapters return: "DevOps Days" on 2025-05-01, and "kube-con"
\* bare and "KubeCon 2024" with a CFP URL, both on 2025-06-01
CollectUniverse ==
    { Event(<<"D","e","v","O","p","s"," ","D","a","y","s">>, Date(2025, 5, 1),
            NoDate, <<>>, NoDate, NoneStr, "", "", 30, 0),
      Event(<<"k","u","b","e","-","c","o","n">>, Date(2025, 6, 1),
            NoDate, <<>>, NoDate, NoneStr, "", "", 30, 0),
      Event(<<"K","u","b","e","C","o","n"," ","2","0","2","4">>, Date(2025, 6, 1),
            NoDate, <<>>, NoDate, "https://cfp", "", "", 30, 0) }

\* the days on which the run takes place
CollectDays == { Date(2025, 6, 15), Date(2025, 5, 20) }

PendingTask == [state |-> "pending", events |-> <<>>]

\* asyncio.gather(*tasks) that lets the first exception of a task propagate
gather_FailFast(tasks) ==
    IF \E i \in DOMAIN tasks : tasks[i].state = "exc"
    THEN [raised |-> TRUE, results |-> <<>>]
    ELSE [raised |-> FALSE, results |-> tasks]

\* asyncio.gather(*tasks, return_exceptions=True): the results in task order, an
\* exception standing as the result of the task that raised it
gather(tasks) == [raised |-> FALSE, results |-> tasks]

\* the loop over results: an exception is logged, a list extends all_events
RECURSIVE AggregateLoop(_, _, _)
AggregateLoop(results, i, all_events) ==
    IF i > Len(results) THEN all_events
    ELSE IF results[i].state = "exc"
         THEN AggregateLoop(results, i + 1, all_events)
         ELSE AggregateLoop(results, i + 1, all_events \o results[i].events)

\* a cutoff of today itself
cutoff_Today(today) == today

\* date.today().replace(day=1)
cutoff(today) == [today EXCEPT !.day = 1]

\* [e for e in unique_events if e.start_date >= cutoff]
FutureFilter(unique_events, today) ==
    SelectSeq(unique_events, LAMBDA e : DateGE(e.start_date, cutoff(today)))

\* list.sort(key=start_date) inserts stably: after every element that is not later
RECURSIVE SortedInsert(_, _)
SortedInsert(sorted, e) ==
    IF sorted = <<>> THEN <<e>>
    ELSE IF DateLT(e.start_date, Head(sorted).start_date) THEN <<e>> \o sorted
    ELSE <<Head(sorted)>> \o SortedInsert(Tail(sorted), e)

\* a sort that leaves the list as it is
SortByStart_Unsorted(events, i, sorted) == events

RECURSIVE SortByStart(_, _, _)
SortByStart(events, i, sorted) ==
    IF i > Len(events) THEN sorted
    ELSE SortByStart(events, i + 1, SortedInsert(sorted, events[i]))

CollectIdle ==
    /\ co_pc = "idle"
    /\ co_today = Date(2025, 6, 15)
    /\ co_tasks = <<>>
    /\ co_all_events = <<>>
    /\ co_unique = <<>>
    /\ co_future = <<>>
    /\ co_merges = 0

\* collect_all_events(use_ai) up to the await: three tasks, four with use_ai
CollectInit ==
    /\ co_pc = "gathering"
    /\ co_today \in CollectDays
    /\ \E use_ai \in BOOLEAN :
           co_tasks = [i \in 1..(IF use_ai THEN 4 ELSE 3) |-> PendingTask]
    /\ co_all_events = <<>>
    /\ co_unique = <<>>
    /\ co_future = <<>>
    /\ co_merges = 0

\* an adapter task returns its list
TaskReturns(i, events) ==
    /\ co_pc = "gathering"
    /\ co_tasks[i].state = "pending"
    /\ co_tasks' = [co_tasks EXCEPT ![i] = [state |-> "ok", events |-> events]]
    /\ UNCHANGED <<co_pc, co_today, co_all_events, co_unique, co_future, co_merges>>

\* an adapter task fails with an exception
TaskRaises(i) ==
    /\ co_pc = "gathering"
    /\ co_tasks[i].state = "pending"
    /\ co_tasks' = [co_tasks EXCEPT ![i] = [state |-> "exc", events |-> <<>>]]
    /\ UNCHANGED <<co_pc, co_today, co_all_events, co_unique, co_future, co_merges>>

AllTasksDone == \A i \in DOMAIN co_tasks : co_tasks[i].state # "pending"

\* the locals of collect_all_events after line 52, for the results of gather
CollectLocals(results) ==
    \E all_events \in {AggregateLoop(results, 1, <<>>)} :
    \E unique_events \in {deduplicate_events(all_events)} :
        /\ co_all_events' = all_events
        /\ co_unique' = unique_events
        /\ co_future' = SortByStart(FutureFilter(unique_events, co_today), 1, <<>>)

\* the await of gather ends: an exception it raises leaves collect_all_events at
\* once; otherwise the pipeline runs, store.merge succeeds and the list is returned
CollectReturns ==
    /\ co_pc = "gathering"
    /\ AllTasksDone
    /\ IF gather(co_tasks).raised
       THEN /\ co_pc' = "raised"
            /\ UNCHANGED <<co_all_events, co_unique, co_future, co_merges, stVars>>
       ELSE /\ CollectLocals(gather(co_tasks).results)
            /\ MergeOk(co_future')
            /\ co_merges' = co_merges + 1
            /\ co_pc' = "returned"
    /\ UNCHANGED <<co_today, co_tasks>>

\* the pipeline runs and store.merge raises: collect_all_events raises
CollectMergeFails ==
    /\ co_pc = "gathering"
    /\ AllTasksDone
    /\ ~gather(co_tasks).raised
    /\ CollectLocals(gather(co_tasks).results)
    /\ MergeLoadFails(co_future') \/ MergeSaveFails(co_future')
    /\ co_merges' = co_merges + 1
    /\ co_pc' = "raised"
    /\ UNCHANGED <<co_today, co_tasks>>


(***************************************************************************)
(* Relevance scoring.  Scores are in hundredths: 0.3 is 30, 1.0 is 100.    *)
(***************************************************************************)
\* config.TOPICS: the fallback list of load_topics
TOPICS == << <<"c","i","/","c","d">>,
            <<"c","o","n","t","i","n","u","o","u","s"," ","i","n","t","e","g","r","a","t","i","o","n">>,
            <<"c","o","n","t","i","n","u","o","u","s"," ","d","e","l","i","v","e","r","y">>,
            <<"d","e","v","o","p","s">>,
            <<"p","l","a","t","f","o","r","m"," ","e","n","g","i","n","e","e","r","i","n","g">>,
            <<"c","l","o","u","d"," ","n","a","t","i","v","e">>,
            <<"k","u","b","e","r","n","e","t","e","s">>,
            <<"c","o","n","t","a","i","n","e","r","s">>,
            <<"g","i","t","o","p","s">>,
            <<"t","e","k","t","o","n">> >>

\* config.TARGET_COUNTRIES and config.GLOBAL_CONFERENCES as one configuration sets them
TARGET_COUNTRIES == << <<"I","n","d","i","a">> >>

GLOBAL_CONFERENCES == << <<"K","u","b","e","C","o","n">> >>

Min(a, b) == IF a <= b THEN a ELSE b

\* sum(1 for t in TOPICS if any(t.lower() in topic for topic in topic_lower))
TopicMatches(topics) ==
    Cardinality({ i \in DOMAIN TOPICS :
                      \E k \in DOMAIN topics :
                          IsSubstring(Lower(TOPICS[i]), Lower(topics[k])) })

\* the keywords of the Tekton/CI-CD bonus
PipelineKeywords == << <<"t","e","k","t","o","n">>, <<"c","i","/","c","d">>, <<"c","i","c","d">>, <<"p","i","p","e","l","i","n","e">> >>

\* calculate_topic_relevance with the final min(1.0, score) left out
calculate_topic_relevance_Unclamped(event, today) ==
    IF event.topics = <<>> THEN 30
    ELSE 30 + Min(50, TopicMatches(event.topics) * 10)
            + (IF event.cfp_deadline # NoDate /\ DateGE(event.cfp_deadline, today)
               THEN 15 ELSE 0)
            + (IF \E k \in DOMAIN PipelineKeywords :
                      IsSubstring(PipelineKeywords[k], Lower(event.name))
               THEN 10 ELSE 0)

\* calculate_topic_relevance, with date.today() as a parameter
calculate_topic_relevance(event, today) ==
    IF event.topics = <<>> THEN 30
    ELSE Min(100,
             30 + Min(50, TopicMatches(event.topics) * 10)
                + (IF event.cfp_deadline # NoDate /\ DateGE(event.cfp_deadline, today)
                   THEN 15 ELSE 0)
                + (IF \E k \in DOMAIN PipelineKeywords :
                          IsSubstring(PipelineKeywords[k], Lower(event.name))
                   THEN 10 ELSE 0))

\* dict.get(key) is truthy: the key is present with a non-empty value
Truthy(v) == v # NoneStr /\ v # ""

\* topics_found of _parse_conferences: the TOPICS found in the name, then the
\* topic of the category
TopicsFound(conf, category) ==
    SelectSeq(TOPICS, LAMBDA t : IsSubstring(Lower(t), Lower(conf.name)))
        \o (IF category = "devops" THEN << <<"d","e","v","o","p","s">> >>
            ELSE IF category = "cloud" THEN << <<"c","l","o","u","d"," ","n","a","t","i","v","e">> >>
            ELSE <<>>)

\* confs_tech._calculate_relevance
_calculate_relevance(conf, topics_found) ==
    Min(100,
        30 + Min(50, Len(topics_found) * 15)
           + (IF Truthy(conf.cfpUrl) THEN 10 ELSE 0)
           + (IF Truthy(conf.twitter) THEN 10 ELSE 0))

\* the relevance_score _parse_response gives every AI-discovered event
AIRelevance == 70

\* the sub-lists of a list, order kept
RECURSIVE SubLists(_)
SubLists(list) ==
    IF list = <<>> THEN { <<>> }
    ELSE LET rest == SubLists(Tail(list))
         IN  rest \cup { <<Head(list)>> \o r : r \in rest }

\* topics an event may carry
TopicPool == << <<"D","e","v","O","p","s">>,
               <<"K","u","b","e","r","n","e","t","e","s">>,
               <<"G","i","t","O","p","s">>,
               <<"C","I","/","C","D">>,
               <<"T","e","k","t","o","n">>,
               <<"C","l","o","u","d"," ","N","a","t","i","v","e"," ","C","o","n","t","a","i","n","e","r","s">>,
               <<"R","u","s","t">> >>

\* "Tekton Pipelines Day" and "KubeCon 2024"
ScoreNames == { <<"T","e","k","t","o","n"," ","P","i","p","e","l","i","n","e","s"," ","D","a","y">>,
                <<"K","u","b","e","C","o","n"," ","2","0","2","4">> }

ScoreToday == Date(2025, 6, 15)

\* events to score: any sub-list of the pool as topics; no CFP deadline, one that
\* has passed, one of today
ScoreUniverse ==
    { Event(n, Date(2025, 9, 1), NoDate, t, c, NoneStr, "", "", 30, 0) :
        n \in ScoreNames, t \in SubLists(TopicPool),
        c \in {NoDate, Date(2025, 6, 14), ScoreToday} }

\* a record of a confs.tech category file; `missing` names the keys it lacks, and
\* cfpUrl or twitter may also be NoneStr for a key that is missing
Conf(name, country, startDate, cfpUrl, twitter) ==
    [name |-> name, city |-> "Bengaluru", country |-> country, startDate |-> startDate,
     endDate |-> NoneStr, cfpEndDate |-> NoneStr, cfpUrl |-> cfpUrl,
     url |-> "https://w", description |-> "", twitter |-> twitter, missing |-> {}]

\* "DevOps Kubernetes GitOps Tekton CI/CD Days", "KubeCon" and "RustConf"
ConfNames == { <<"D","e","v","O","p","s"," ","K","u","b","e","r","n","e","t","e","s"," ","G","i","t","O","p","s"," ","T","e","k","t","o","n"," ","C","I","/","C","D"," ","D","a","y","s">>,
               <<"K","u","b","e","C","o","n">>,
               <<"R","u","s","t","C","o","n","f">> }

CATEGORIES == <<"devops", "cloud", "general">>

ScoreConfs ==
    { [conf |-> Conf(n, <<"I","n","d","i","a">>, <<"2","0","2","5","-","0","9","-","0","1">>, u, t), category |-> c] :
        n \in ConfNames, u \in {NoneStr, "", "https://cfp"},
        t \in {NoneStr, "@conf"}, c \in Range(CATEGORIES) }

\* an event and a record without content
BlankEvent == Event(<<>>, NoDate, NoDate, <<>>, NoDate, NoneStr, "", "", 0, 0)

BlankConf == [conf |-> Conf(<<>>, <<>>, <<>>, NoneStr, NoneStr), category |-> "general"]

ScoreIdle ==
    /\ sc_pc = "idle"
    /\ sc_event = BlankEvent
    /\ sc_conf = BlankConf
    /\ sc_score = 0

\* one of the two inputs is drawn, the other is blank
ScoreInit ==
    /\ sc_pc = "start"
    /\ \/ sc_event \in ScoreUniverse /\ sc_conf = BlankConf
       \/ sc_event = BlankEvent /\ sc_conf \in ScoreConfs
    /\ sc_score = 0

\* calculate_topic_relevance(event)
ScoreTopics ==
    /\ sc_pc = "start"
    /\ sc_score' = calculate_topic_relevance(sc_event, ScoreToday)
    /\ sc_pc' = "topic"
    /\ UNCHANGED <<sc_event, sc_conf>>

\* _calculate_relevance(conf, topics_found) as _parse_conferences calls it
ScoreConf ==
    /\ sc_pc = "start"
    /\ sc_score' = _calculate_relevance(sc_conf.conf,
                                        TopicsFound(sc_conf.conf, sc_conf.category))
    /\ sc_pc' = "conf"
    /\ UNCHANGED <<sc_event, sc_conf>>

\* the score of an AI-discovered event
ScoreAI ==
    /\ sc_pc = "start"
    /\ sc_score' = AIRelevance
    /\ sc_pc' = "ai"
    /\ UNCHANGED <<sc_event, sc_conf>>


(***************************************************************************)
(* enrich_event_cfp.  A value of the dict extract_cfp_details returns is   *)
(* [t, s, l, a]: t is "absent" (no key, or null), "str" (the text s, or    *)
(* the URL a), "num" (a non-zero number of JSON literal s), "list" (l).    *)
(***************************************************************************)
DetailValue(t, s, l, a) == [t |-> t, s |-> s, l |-> l, a |-> a]

Absent == DetailValue("absent", <<>>, <<>>, "")

\* bool(details.get(key))
DetailTruthy(x) ==
    CASE x.t = "absent" -> FALSE
      [] x.t = "num"    -> TRUE
      [] x.t = "str"    -> x.s # <<>> \/ x.a # ""
      [] x.t = "list"   -> x.l # <<>>

\* the dicts extract_cfp_details may return: {} on any failure, else what the
\* model's JSON holds
DetailsUniverse ==
    [cfp_deadline : { Absent,
                      DetailValue("str", <<"2","0","2","5","-","0","7","-","0","1">>, <<>>, ""),
                      DetailValue("str", <<"s","o","o","n">>, <<>>, ""),
                      DetailValue("num", <<"2","0","2","5","0","7","0","1">>, <<>>, "") },
     cfp_url :      { Absent, DetailValue("str", <<>>, <<>>, "https://cfp") },
     topics :       { Absent,
                      DetailValue("list", <<>>, << <<"d","e","v","o","p","s">> >>, ""),
                      DetailValue("list", <<>>, << <<"D","e","v","O","p","s">>, <<"G","i","t","O","p","s">> >>, ""),
                      DetailValue("str", <<"d","e","v","o","p","s">>, <<>>, "") }]

\* the orders in which list(set(...)) may yield the elements of a set
Orderings(S) ==
    { q \in [1..Cardinality(S) -> S] : \A i, j \in DOMAIN q : i # j => q[i] # q[j] }

\* the guard of enrich_event_cfp with the test of cfp_deadline left out
EnrichSkips_WebsiteOnly(event) == ~Truthy(event.website)

\* `not event.website or event.cfp_deadline`
EnrichSkips(event) == ~Truthy(event.website) \/ event.cfp_deadline # NoDate

\* lines 152-156: the deadline is set from a valid ISO string, a ValueError is
\* passed over; fromisoformat of a value that is no str raises TypeError
EnrichDeadline(event, details) ==
    IF ~DetailTruthy(details.cfp_deadline) THEN [raised |-> FALSE, event |-> event]
    ELSE IF details.cfp_deadline.t # "str" THEN [raised |-> TRUE, event |-> event]
    ELSE IF fromisoformat(details.cfp_deadline.s).ok
         THEN [raised |-> FALSE,
               event |-> [event EXCEPT !.cfp_deadline =
                                           fromisoformat(details.cfp_deadline.s).date]]
         ELSE [raised |-> FALSE, event |-> event]

\* lines 158-159
EnrichUrl(event, details) ==
    IF DetailTruthy(details.cfp_url)
    THEN [event EXCEPT !.cfp_url = details.cfp_url.a]
    ELSE event

\* the events enrich_event_cfp is called with
EnrichUniverse ==
    { Event(<<"K","u","b","e","C","o","n"," ","2","0","2","4">>, Date(2025, 9, 1),
            NoDate, t, c, u, w, "", 30, 0) :
        t \in { <<>>, << <<"D","e","v","O","p","s">> >> },
        c \in { NoDate, Date(2025, 6, 30) },
        u \in { NoneStr, "https://old" },
        w \in { "", "https://w" } }

\* datetime.now() at the end of the call: later than any last_updated of the model
EnrichNow == 1

EnrichIdle ==
    /\ en_pc = "idle"
    /\ en_event = BlankEvent
    /\ en_result = BlankEvent
    /\ en_lookups = 0

EnrichInit ==
    /\ en_pc = "start"
    /\ en_event \in EnrichUniverse
    /\ en_result = en_event
    /\ en_lookups = 0

\* line 147-148: the early return
EnrichReturnsEarly ==
    /\ en_pc = "start"
    /\ EnrichSkips(en_event)
    /\ en_pc' = "returned"
    /\ UNCHANGED <<en_event, en_result, en_lookups>>

\* lines 150-165 for the dict `details` that extract_cfp_details returned
EnrichLooksUp(details) ==
    /\ en_pc = "start"
    /\ ~EnrichSkips(en_event)
    /\ en_lookups' = en_lookups + 1
    /\ \E d \in {EnrichDeadline(en_event, details)} :
           IF d.raised
           THEN en_pc' = "raised" /\ en_result' = d.event
           ELSE \E e \in {EnrichUrl(d.event, details)} :
                    IF ~DetailTruthy(details.topics)
                    THEN /\ en_pc' = "returned"
                         /\ en_result' = [e EXCEPT !.last_updated = EnrichNow]
                    ELSE IF details.topics.t # "list"
                    THEN en_pc' = "raised" /\ en_result' = e
                    ELSE \E q \in Orderings(Range(e.topics \o details.topics.l)) :
                             /\ en_pc' = "returned"
                             /\ en_result' = [e EXCEPT !.topics = q,
                                                       !.last_updated = EnrichNow]
    /\ UNCHANGED en_event


(***************************************************************************)
(* confs_tech.fetch_conferences and _parse_conferences.                    *)
(***************************************************************************)
\* c.lower() for c in a config list
RECURSIVE LowerAll(_)
LowerAll(list) ==
    IF list = <<>> THEN <<>> ELSE <<Lower(Head(list))>> \o LowerAll(Tail(list))

\* the outcomes of _parse_conferences for one record: <<>> when it is skipped,
\* else one event, its topics in any order list(set(topics_found)) may give
ParseConf(conf, category) ==
    LET name_lower == Lower(conf.name)
        country_match == Lower(conf.country) \in Range(LowerAll(TARGET_COUNTRIES))
        global_conf_match ==
            \E k \in DOMAIN GLOBAL_CONFERENCES :
                IsSubstring(Lower(GLOBAL_CONFERENCES[k]), name_lower)
        topics_found == TopicsFound(conf, category)
        start == IF "startDate" \in conf.missing
                 THEN [ok |-> FALSE, date |-> NoDate]
                 ELSE fromisoformat(conf.startDate)
    IN  IF ~(country_match \/ global_conf_match) THEN { <<>> }
        ELSE IF topics_found = <<>> /\ category = "general" THEN { <<>> }
        ELSE IF ~start.ok THEN { <<>> }
        ELSE { << [Event(conf.name, start.date, NoDate, q, NoDate,
                         IF Truthy(conf.cfpUrl) THEN conf.cfpUrl ELSE NoneStr,
                         conf.url, conf.description,
                         _calculate_relevance(conf, topics_found), 0)
                       EXCEPT !.city = conf.city, !.country = conf.country] >> :
                   q \in Orderings(Range(topics_found)) }

\* the lists of events _parse_conferences(data, category) may return
RECURSIVE _parse_conferences(_, _)
_parse_conferences(data, category) ==
    IF data = <<>> THEN { <<>> }
    ELSE { first \o rest : first \in ParseConf(Head(data), category),
                           rest \in _parse_conferences(Tail(data), category) }

\* the records of the category files: "KubeCon" in India with a CFP URL,
\* "RustConf" in India, "KubeCon" in France without a startDate, "RustConf" in
\* France with a startDate that is no date
FetchConfs ==
    { Conf(<<"K","u","b","e","C","o","n">>, <<"I","n","d","i","a">>, <<"2","0","2","5","-","0","9","-","0","1">>, "https://cfp", "@conf"),
      Conf(<<"R","u","s","t","C","o","n","f">>, <<"I","n","d","i","a">>, <<"2","0","2","5","-","1","0","-","0","1">>, NoneStr, NoneStr),
      [Conf(<<"K","u","b","e","C","o","n">>, <<"F","r","a","n","c","e">>, <<>>, NoneStr, NoneStr)
           EXCEPT !.missing = {"startDate"}],
      Conf(<<"R","u","s","t","C","o","n","f">>, <<"F","r","a","n","c","e">>, <<"T","B","D">>, NoneStr, NoneStr) }

FetchIdle ==
    /\ fc_pc = "idle"
    /\ fc_i = 1
    /\ fc_events = <<>>
    /\ fc_log = <<>>

\* fetch_conferences(year) up to the loop
FetchInit ==
    /\ fc_pc = "fetching"
    /\ fc_i = 1
    /\ fc_events = <<>>
    /\ fc_log = <<>>

\* the end of one iteration: the next category, or `return events` after the last
FetchAdvance ==
    /\ fc_i' = fc_i + 1
    /\ fc_pc' = IF fc_i = Len(CATEGORIES) THEN "returned" ELSE "fetching"

\* status 200 and a JSON array: the parsed events extend `events`
FetchOk(data) ==
    /\ fc_pc = "fetching"
    /\ \E parsed \in _parse_conferences(data, CATEGORIES[fc_i]) :
           fc_events' = fc_events \o parsed
    /\ fc_log' = Append(fc_log, [kind |-> "ok", data |-> data])
    /\ FetchAdvance

\* a status other than 200: nothing is added
FetchNon200 ==
    /\ fc_pc = "fetching"
    /\ fc_log' = Append(fc_log, [kind |-> "non200", data |-> <<>>])
    /\ FetchAdvance
    /\ UNCHANGED fc_events

\* client.get raises httpx.HTTPError: caught, logged, continue
FetchHttpError ==
    /\ fc_pc = "fetching"
    /\ fc_log' = Append(fc_log, [kind |-> "http_error", data |-> <<>>])
    /\ FetchAdvance
    /\ UNCHANGED fc_events

\* status 200 and a body that is no JSON: response.json() raises
\* json.JSONDecodeError, which `except httpx.HTTPError` does not catch
FetchBadJson ==
    /\ fc_pc = "fetching"
    /\ fc_log' = Append(fc_log, [kind |-> "bad_json", data |-> <<>>])
    /\ fc_pc' = "raised"
    /\ UNCHANGED <<fc_i, fc_events>>

(***************************************************************************)
(* notifier.check_upcoming_cfps: the persisted events whose CFP closes     *)
(* within `days` days, by deadline.                                        *)
(***************************************************************************)
\* days of year y before its month m
RECURSIVE DaysBeforeMonth(_, _)
DaysBeforeMonth(y, m) ==
    IF m = 1 THEN 0 ELSE DaysBeforeMonth(y, m - 1) + DaysInMonth(y, m - 1)

\* date.toordinal(): 0001-01-01 is day 1
toordinal(d) ==
    LET p == d.year - 1
    IN  p * 365 + (p \div 4) - (p \div 100) + (p \div 400)
            + DaysBeforeMonth(d.year, d.month) + d.day

\* (a - b).days
DaysBetween(a, b) == toordinal(a) - toordinal(b)

\* the test of the loop with both ends of the window left out
ClosesWithin_Exclusive(event, today, days) ==
    /\ event.cfp_deadline # NoDate
    /\ 0 < DaysBetween(event.cfp_deadline, today)
    /\ DaysBetween(event.cfp_deadline, today) < days

\* the test of the loop: the event has a deadline and 0 <= days_left <= days
ClosesWithin(event, today, days) ==
    /\ event.cfp_deadline # NoDate
    /\ 0 <= DaysBetween(event.cfp_deadline, today)
    /\ DaysBetween(event.cfp_deadline, today) <= days

\* list.sort(key=cfp_deadline) inserts stably: after every element that is not later
RECURSIVE DeadlineInsert(_, _)
DeadlineInsert(sorted, e) ==
    IF sorted = <<>> THEN <<e>>
    ELSE IF DateLT(e.cfp_deadline, Head(sorted).cfp_deadline) THEN <<e>> \o sorted
    ELSE <<Head(sorted)>> \o DeadlineInsert(Tail(sorted), e)

RECURSIVE SortByDeadline(_, _, _)
SortByDeadline(events, i, sorted) ==
    IF i > Len(events) THEN sorted
    ELSE SortByDeadline(events, i + 1, DeadlineInsert(sorted, events[i]))

\* the day check_upcoming_cfps runs
NotifyToday == Date(2025, 2, 20)

\* the thresholds: today only, and the default of two weeks
NotifyDays == {0, 14}

\* the CFP deadlines of the persisted events: none, the day before today, today,
\* the day after, the last day of the two-week window (twice) and the day after it
NotifyDeadlines ==
    << NoDate, Date(2025, 2, 19), Date(2025, 2, 20), Date(2025, 2, 21),
       Date(2025, 3, 6), Date(2025, 3, 6), Date(2025, 3, 7) >>

\* the persisted events: one per start date, so one per dedup key
NotifyUniverse ==
    { Event(<<"D","e","v","O","p","s"," ","D","a","y","s">>, Date(2025, 6, i),
            NoDate, <<>>, NotifyDeadlines[i], NoneStr, "https://w", "", 30, 0) :
        i \in DOMAIN NotifyDeadlines }

\* the stores: lists of at most MaxStored events, no event twice
NotifyStores ==
    { l \in SeqsUpTo(NotifyUniverse, MaxStored) :
        \A i, j \in DOMAIN l : i # j => l[i] # l[j] }

NotifyIdle ==
    /\ nf_pc = "idle"
    /\ nf_today = NoDate
    /\ nf_days = 0
    /\ nf_webhook = FALSE
    /\ nf_upcoming = <<>>
    /\ nf_posts = <<>>

NotifyInit ==
    /\ nf_pc = "start"
    /\ nf_today = NotifyToday
    /\ nf_days \in NotifyDays
    /\ nf_webhook \in BOOLEAN
    /\ nf_upcoming = <<>>
    /\ nf_posts = <<>>
    /\ \E l \in NotifyStores : file = [exists |-> TRUE, content |-> DumpAll(l)]
    /\ st_status = "none"
    /\ st_batch = <<>>
    /\ st_repeat = FALSE

\* check_upcoming_cfps(days) runs to its end: load, filter, sort, notify, return;
\* the outcome of each post of send_slack_notifications only reaches the log
CheckUpcoming ==
    /\ nf_pc = "start"
    /\ LET events   == EventStore_load(file)
           upcoming == SelectSeq(events,
                           LAMBDA e : ClosesWithin(e, nf_today, nf_days))
       IN  /\ nf_upcoming' = SortByDeadline(upcoming, 1, <<>>)
           /\ nf_posts' = IF nf_webhook THEN nf_upcoming' ELSE <<>>
    /\ nf_pc' = "returned"
    /\ UNCHANGED <<nf_today, nf_days, nf_webhook>>

\* check_upcoming_cfps(days) fails while the store reads its backing file
CheckLoadFails ==
    /\ nf_pc = "start"
    /\ file.exists
    /\ nf_pc' = "raised"
    /\ UNCHANGED <<nf_today, nf_days, nf_webhook, nf_upcoming, nf_posts>>


(***************************************************************************)
(* web_search.search_events and _parse_response.  An item of the events    *)
(* array is a JSON object (its values as in the details above) or a JSON   *)
(* value of another type.                                                  *)
(***************************************************************************)
Item(shape, name, start_date, end_date, cfp_deadline) ==
    [shape |-> shape, name |-> name, start_date |-> start_date,
     end_date |-> end_date, cfp_deadline |-> cfp_deadline]

\* a str value of an item
StrValue(s) == DetailValue("str", s, <<>>, "")

\* datetime.now() while a response is parsed
ParseNow == 1

\* lines 105-144 for one item: "event" with the Event built, "skip" for the
\* continue of lines 108 and 144, "raise" for an exception the handler of line
\* 142 does not catch (AttributeError of item.get on a value that is no object,
\* TypeError of fromisoformat on a value that is no str)
ParseItem(item, country) ==
    IF item.shape # "object" THEN [kind |-> "raise", event |-> BlankEvent]
    ELSE IF ~DetailTruthy(item.start_date) \/ item.start_date.t # "str"
    THEN [kind |-> "skip", event |-> BlankEvent]
    ELSE IF ~fromisoformat(item.start_date.s).ok
    THEN [kind |-> "skip", event |-> BlankEvent]
    ELSE IF \/ DetailTruthy(item.end_date) /\ item.end_date.t # "str"
            \/ DetailTruthy(item.cfp_deadline) /\ item.cfp_deadline.t # "str"
    THEN [kind |-> "raise", event |-> BlankEvent]
    ELSE [kind |-> "event",
          event |-> Event(item.name, fromisoformat(item.start_date.s).date,
                          IF DetailTruthy(item.end_date)
                          THEN fromisoformat(item.end_date.s).date ELSE NoDate,
                          <<>>,
                          IF DetailTruthy(item.cfp_deadline)
                          THEN fromisoformat(item.cfp_deadline.s).date ELSE NoDate,
                          NoneStr, "", "", AIRelevance, ParseNow)]

\* the loop of _parse_response from event_list[i] on: [raised, events]
RECURSIVE ParseItems(_, _, _, _)
ParseItems(event_list, i, events, country) ==
    IF i > Len(event_list) THEN [raised |-> FALSE, events |-> events]
    ELSE LET r == ParseItem(event_list[i], country)
         IN  IF r.kind = "raise" THEN [raised |-> TRUE, events |-> events]
             ELSE IF r.kind = "event"
             THEN ParseItems(event_list, i + 1, Append(events, r.event), country)
             ELSE ParseItems(event_list, i + 1, events, country)

\* _parse_response(content, country): a content without a JSON object, or with
\* one that does not parse, gives the empty list
_parse_response(content, country) ==
    IF content.kind # "json" THEN [raised |-> FALSE, events |-> <<>>]
    ELSE ParseItems(content.items, 1, <<>>, country)

\* the items of the responses: well formed (two of them), without start_date,
\* with a start_date that is no date, with a start_date that is a number, with an
\* end_date that is no date, with an end_date that is a number, and a bare string
SearchItems ==
    { Item("object", <<"D","e","v","O","p","s"," ","D","a","y","s">>,
           StrValue(<<"2","0","2","5","-","0","9","-","0","1">>), Absent, Absent),
      Item("object", <<"K","u","b","e","C","o","n"," ","2","0","2","4">>,
           StrValue(<<"2","0","2","5","-","1","1","-","1","0">>),
           StrValue(<<"2","0","2","5","-","1","1","-","1","2">>),
           StrValue(<<"2","0","2","5","-","0","8","-","1","5">>)),
      Item("object", <<"k","u","b","e","-","c","o","n">>, Absent, Absent, Absent),
      Item("object", <<"k","u","b","e","-","c","o","n">>,
           StrValue(<<"T","B","D">>), Absent, Absent),
      Item("object", <<"k","u","b","e","-","c","o","n">>,
           DetailValue("num", <<"2","0","2","5">>, <<>>, ""), Absent, Absent),
      Item("object", <<"k","u","b","e","-","c","o","n">>,
           StrValue(<<"2","0","2","5","-","1","0","-","0","1">>),
           StrValue(<<"T","B","D">>), Absent),
      Item("object", <<"k","u","b","e","-","c","o","n">>,
           StrValue(<<"2","0","2","5","-","1","0","-","0","1">>),
           DetailValue("num", <<"2","0","2","5">>, <<>>, ""), Absent),
      Item("string", <<>>, Absent, Absent, Absent) }

\* what the model may answer: text without a JSON object, a JSON object that does
\* not parse, or a JSON object with an events array of at most MaxItems items
SearchContents ==
    { [kind |-> "text", items |-> <<>>], [kind |-> "badjson", items |-> <<>>] }
        \cup { [kind |-> "json", items |-> l] : l \in SeqsUpTo(SearchItems, MaxItems) }

SearchIdle ==
    /\ se_pc = "idle"
    /\ se_key = FALSE
    /\ se_i = 1
    /\ se_events = <<>>
    /\ se_log = <<>>

SearchInit ==
    /\ se_pc = "searching"
    /\ se_key \in BOOLEAN
    /\ se_i = 1
    /\ se_events = <<>>
    /\ se_log = <<>>

\* lines 23-25: without an API key the search is skipped
SearchNoKey ==
    /\ se_pc = "searching"
    /\ ~se_key
    /\ se_pc' = "returned"
    /\ UNCHANGED <<se_key, se_i, se_events, se_log>>

\* the for loop is over, or goes on with the next country
SearchAdvance ==
    /\ se_i' = se_i + 1
    /\ se_pc' = IF se_i + 1 > Len(TARGET_COUNTRIES) THEN "returned" ELSE "searching"

\* lines 68-85 for one country: the query answers `content`; an exception of
\* _parse_response is caught by line 83 and the country adds nothing
SearchAnswers(content) ==
    /\ se_pc = "searching"
    /\ se_key
    /\ se_i <= Len(TARGET_COUNTRIES)
    /\ \E parsed \in {_parse_response(content, TARGET_COUNTRIES[se_i])} :
           se_events' = IF parsed.raised THEN se_events
                        ELSE se_events \o parsed.events
    /\ se_log' = Append(se_log, content)
    /\ SearchAdvance
    /\ UNCHANGED se_key

\* lines 68-85 for one country: generate_content raises
SearchQueryFails ==
    /\ se_pc = "searching"
    /\ se_key
    /\ se_i <= Len(TARGET_COUNTRIES)
    /\ se_log' = Append(se_log, [kind |-> "error", items |-> <<>>])
    /\ SearchAdvance
    /\ UNCHANGED <<se_key, se_events>>


vars == <<ddVars, stVars, coVars, scVars, enVars, fcVars, nfVars, seVars>>

InitDedup == DedupInit /\ StoreIdle /\ CollectIdle /\ ScoreIdle /\ EnrichIdle /\ FetchIdle /\ NotifyIdle /\ SearchIdle

NextDedup == DedupCall /\ UNCHANGED <<stVars, coVars, scVars, enVars, fcVars, nfVars, seVars>>

InitStore == StoreInit /\ DedupIdle /\ CollectIdle /\ ScoreIdle /\ EnrichIdle /\ FetchIdle /\ NotifyIdle /\ SearchIdle

NextStore ==
    \/ \E x \in Batches : MergeOk(x) /\ UNCHANGED <<ddVars, coVars, scVars, enVars, fcVars, nfVars, seVars>>
    \/ \E x \in Batches : MergeLoadFails(x) /\ UNCHANGED <<ddVars, coVars, scVars, enVars, fcVars, nfVars, seVars>>
    \/ \E x \in Batches : MergeSaveFails(x) /\ UNCHANGED <<ddVars, coVars, scVars, enVars, fcVars, nfVars, seVars>>

SpecStore == InitStore /\ [][NextStore]_vars

TaskLists == SeqsUpTo(CollectUniverse, MaxTaskEvents)

InitCollect == CollectInit /\ StoreInit /\ DedupIdle /\ ScoreIdle /\ EnrichIdle /\ FetchIdle /\ NotifyIdle /\ SearchIdle

NextCollect ==
    \/ \E i \in DOMAIN co_tasks, events \in TaskLists :
           TaskReturns(i, events) /\ UNCHANGED <<ddVars, stVars, scVars, enVars, fcVars, nfVars, seVars>>
    \/ \E i \in DOMAIN co_tasks : TaskRaises(i) /\ UNCHANGED <<ddVars, stVars, scVars, enVars, fcVars, nfVars, seVars>>
    \/ CollectReturns /\ UNCHANGED <<ddVars, scVars, enVars, fcVars, nfVars, seVars>>
    \/ CollectMergeFails /\ UNCHANGED <<ddVars, scVars, enVars, fcVars, nfVars, seVars>>

SpecCollect == InitCollect /\ [][NextCollect]_vars

InitScore == ScoreInit /\ DedupIdle /\ StoreIdle /\ CollectIdle /\ EnrichIdle /\ FetchIdle /\ NotifyIdle /\ SearchIdle

NextScore ==
    \/ ScoreTopics /\ UNCHANGED <<ddVars, stVars, coVars, enVars, fcVars, nfVars, seVars>>
    \/ ScoreConf /\ UNCHANGED <<ddVars, stVars, coVars, enVars, fcVars, nfVars, seVars>>
    \/ ScoreAI /\ UNCHANGED <<ddVars, stVars, coVars, enVars, fcVars, nfVars, seVars>>

SpecScore == InitScore /\ [][NextScore]_vars

InitEnrich == EnrichInit /\ DedupIdle /\ StoreIdle /\ CollectIdle /\ ScoreIdle /\ FetchIdle /\ NotifyIdle /\ SearchIdle

NextEnrich ==
    \/ EnrichReturnsEarly /\ UNCHANGED <<ddVars, stVars, coVars, scVars, fcVars, nfVars, seVars>>
    \/ \E details \in DetailsUniverse :
           EnrichLooksUp(details) /\ UNCHANGED <<ddVars, stVars, coVars, scVars, fcVars, nfVars, seVars>>

SpecEnrich == InitEnrich /\ [][NextEnrich]_vars

InitFetch == FetchInit /\ DedupIdle /\ StoreIdle /\ CollectIdle /\ ScoreIdle /\ EnrichIdle /\ NotifyIdle /\ SearchIdle

NextFetch ==
    \/ \E d \in SeqsUpTo(FetchConfs, MaxConfs) :
           FetchOk(d) /\ UNCHANGED <<ddVars, stVars, coVars, scVars, enVars, nfVars, seVars>>
    \/ FetchNon200 /\ UNCHANGED <<ddVars, stVars, coVars, scVars, enVars, nfVars, seVars>>
    \/ FetchHttpError /\ UNCHANGED <<ddVars, stVars, coVars, scVars, enVars, nfVars, seVars>>
    \/ FetchBadJson /\ UNCHANGED <<ddVars, stVars, coVars, scVars, enVars, nfVars, seVars>>

SpecFetch == InitFetch /\ [][NextFetch]_vars

InitNotify ==
    NotifyInit /\ DedupIdle /\ CollectIdle /\ ScoreIdle /\ EnrichIdle /\ FetchIdle
        /\ SearchIdle

NextNotify ==
    \/ CheckUpcoming /\ UNCHANGED <<ddVars, stVars, coVars, scVars, enVars, fcVars, seVars>>
    \/ CheckLoadFails /\ UNCHANGED <<ddVars, stVars, coVars, scVars, enVars, fcVars, seVars>>

SpecNotify == InitNotify /\ [][NextNotify]_vars

InitSearch ==
    SearchInit /\ DedupIdle /\ StoreIdle /\ CollectIdle /\ ScoreIdle /\ EnrichIdle
        /\ FetchIdle /\ NotifyIdle

NextSearch ==
    \/ SearchNoKey /\ UNCHANGED <<ddVars, stVars, coVars, scVars, enVars, fcVars, nfVars>>
    \/ \E content \in SearchContents :
           SearchAnswers(content)
               /\ UNCHANGED <<ddVars, stVars, coVars, scVars, enVars, fcVars, nfVars>>
    \/ SearchQueryFails /\ UNCHANGED <<ddVars, stVars, coVars, scVars, enVars, fcVars, nfVars>>

SpecSearch == InitSearch /\ [][NextSearch]_vars

SpecDedup == InitDedup /\ [][NextDedup]_vars

(***************************************************************************)
(* Claims about deduplicate_events.                                        *)
(***************************************************************************)
\* the identity of an event as the specification defines it
IdentityOf(e) == <<NormalizedName[e.name], e.start_date>>

\* C3: deduplicate_events returns exactly one event for each distinct key
\* (normalized name, start date) of its input: no key twice, no key lost, every
\* returned event taken from the input, and events whose normalized names agree
\* but whose start dates differ both survive.
C3_OnePerKey ==
    dd_pc = "done" =>
        /\ \A i, j \in DOMAIN dd_unique :
               i # j => IdentityOf(dd_unique[i]) # IdentityOf(dd_unique[j])
        /\ { IdentityOf(e) : e \in Range(dd_unique) }
               = { IdentityOf(e) : e \in Range(dd_events) }
        /\ Range(dd_unique) \subseteq Range(dd_events)
        /\ \A e \in Range(dd_events), f \in Range(dd_events) :
               (/\ NormalizedName[e.name] = NormalizedName[f.name]
                /\ e.start_date # f.start_date)
               => \E u, v \in Range(dd_unique) :
                      /\ u.start_date = e.start_date
                      /\ v.start_date = f.start_date
                      /\ NormalizedName[u.name] = NormalizedName[e.name]
                      /\ NormalizedName[v.name] = NormalizedName[e.name]

\* a run in which a duplicate was collapsed while two events of one normalized
\* name, one day apart, were both kept
C3_Witness ==
    /\ dd_pc = "done"
    /\ Len(dd_unique) = 2
    /\ Len(dd_events) = 3
    /\ dd_unique[1].name # dd_unique[2].name
    /\ NormalizedName[dd_unique[1].name] = NormalizedName[dd_unique[2].name]
    /\ dd_unique[1].start_date = Date(2025, 6, 1)
    /\ dd_unique[2].start_date = Date(2025, 6, 2)

\* the positions of the input that hold an event of the identity of e
GroupOf(e) == { i \in DOMAIN dd_events : IdentityOf(dd_events[i]) = IdentityOf(e) }

\* the first position of the group of e that holds a maximal completeness score
FirstBest(e) ==
    CHOOSE i \in GroupOf(e) :
        /\ \A j \in GroupOf(e) :
               _event_completeness(dd_events[j]) <= _event_completeness(dd_events[i])
        /\ \A j \in GroupOf(e) :
               j < i => _event_completeness(dd_events[j]) < _event_completeness(dd_events[i])

\* C4: for every key of the input the surviving event is the first event, in
\* input order, among the events of that key with the maximal completeness
\* score (replacement only on a strictly greater score, first-seen on a tie).
C4_FirstMostComplete ==
    dd_pc = "done" =>
        \A e \in Range(dd_events) :
            \E u \in Range(dd_unique) :
                /\ IdentityOf(u) = IdentityOf(e)
                /\ u = dd_events[FirstBest(e)]

\* a run with a tie (first-seen kept) after a strictly better duplicate replaced
\* a bare event: A bare, B with a description, C with a website
C4_Witness ==
    /\ dd_pc = "done"
    /\ Len(dd_events) = 3
    /\ Len(dd_unique) = 1
    /\ _event_completeness(dd_events[1]) = 0
    /\ _event_completeness(dd_events[2]) = 1
    /\ _event_completeness(dd_events[3]) = 1
    /\ dd_events[2] # dd_events[3]
    /\ dd_unique[1] = dd_events[2]

(***************************************************************************)
(* Claims about EventStore.merge.                                          *)
(***************************************************************************)
\* the persisted collection as load returns it
Persisted == EventStore_load(file)

\* C1: merge is idempotent: a successful merge(X) called right after a
\* successful merge(X) leaves the persisted collection as the first call left
\* it (same events, same order, no growth).
C1_MergeIdempotent ==
    [][(st_status' = "ok" /\ st_repeat') => file' = file]_vars

\* merge(X) succeeded twice in a row for a two-event batch whose events share a
\* key with equal scores, onto a collection holding a better record of that key
C1_Witness ==
    /\ st_status = "ok"
    /\ st_repeat
    /\ Len(st_batch) = 2
    /\ st_batch[1] # st_batch[2]
    /\ IdentityOf(st_batch[1]) = IdentityOf(st_batch[2])
    /\ Len(Persisted) = 2

\* C2: after any sequence of merge calls from an empty or missing backing file
\* the persisted collection never holds two events of one dedup key.
C2_NoDuplicateKeys ==
    \A i, j \in DOMAIN Persisted :
        i # j => IdentityOf(Persisted[i]) # IdentityOf(Persisted[j])

\* a merge whose batch brought a key that was already persisted
C2_Witness ==
    /\ st_status = "ok"
    /\ ~st_repeat
    /\ Len(Persisted) = 2
    /\ Len(st_batch) = 2
    /\ \E i \in DOMAIN Persisted :
           /\ IdentityOf(Persisted[i]) = IdentityOf(st_batch[1])
           /\ Persisted[i] # st_batch[1]
           /\ Persisted[i] # st_batch[2]

\* the identities of the events of a list
IdentitiesOf(events) == { IdentityOf(e) : e \in Range(events) }

RECURSIVE SucceededConcat(_)
SucceededConcat(tasks) ==
    IF tasks = <<>> THEN <<>>
    ELSE (IF Head(tasks).state = "ok" THEN Head(tasks).events ELSE <<>>)
             \o SucceededConcat(Tail(tasks))

\* C5: whatever subset of the adapter tasks fails with an exception, every other
\* task still runs to its end, collect_all_events does not raise because of it
\* (it raises only when the store's merge fails), and the events it processes
\* are the concatenation of the lists of the tasks that succeeded.
C5_PartialSourceResilience ==
    co_pc \in {"returned", "raised"} =>
        /\ \A i \in DOMAIN co_tasks : co_tasks[i].state \in {"ok", "exc"}
        /\ co_pc = "raised" => st_status \in {"load_failed", "save_failed"}
        /\ co_all_events = SucceededConcat(co_tasks)

\* a run that returned although two tasks raised, the other two giving events
C5_Witness ==
    /\ co_pc = "returned"
    /\ Len(co_tasks) = 4
    /\ co_tasks[1].state = "exc"
    /\ co_tasks[3].state = "exc"
    /\ co_tasks[2].state = "ok" /\ co_tasks[2].events # <<>>
    /\ co_tasks[4].state = "ok" /\ co_tasks[4].events # <<>>
    /\ Len(co_all_events) = 2

\* days since 0000-00-00 in a calendar of 31-day months: order-preserving on dates
DayNumber(d) == (d.year * 12 + d.month) * 31 + d.day

C7_RelevanceInUnitInterval ==
    sc_pc \in {"topic", "conf", "ai"} => (sc_score >= 0 /\ sc_score <= 100)

\* a score held at 1.0 by the clamp: five topic matches, an open CFP and a
\* pipeline keyword in the name add up to 1.05
C7_Witness ==
    /\ sc_pc = "topic"
    /\ sc_score = 100
    /\ TopicMatches(sc_event.topics) >= 5
    /\ sc_event.cfp_deadline = ScoreToday
    /\ calculate_topic_relevance_Unclamped(sc_event, ScoreToday) = 105

(***************************************************************************)
(* Claims about enrich_event_cfp.                                          *)
(***************************************************************************)
\* C8: for an event that already has a cfp_deadline, or that has no website,
\* enrich_event_cfp returns the event with every field as it was (last_updated
\* included) and never calls extract_cfp_details.
C8_EnrichNoop ==
    (en_pc \in {"returned", "raised"}
        /\ (en_event.cfp_deadline # NoDate \/ en_event.website = ""))
    => (en_pc = "returned" /\ en_result = en_event /\ en_lookups = 0)

\* a call that returned an event with a website and a cfp_deadline
C8_Witness ==
    /\ en_pc = "returned"
    /\ en_event.cfp_deadline # NoDate
    /\ en_event.website # ""
    /\ en_result = en_event

(***************************************************************************)
(* Claims about fetch_conferences.                                         *)
(***************************************************************************)
\* the number of events the slices answered with status 200 and JSON give
RECURSIVE ParsedCount(_, _)
ParsedCount(log, i) ==
    IF i > Len(log) THEN 0
    ELSE (IF log[i].kind = "ok"
          THEN Len(CHOOSE p \in _parse_conferences(log[i].data, CATEGORIES[i]) : TRUE)
          ELSE 0) + ParsedCount(log, i + 1)

\* C10: a non-200 response, a request error or a malformed JSON body for one
\* (year, category) pair adds no records and does not make fetch_conferences
\* fail: every category is still fetched and the events of the others returned.
C10_SliceFailureContained ==
    /\ fc_pc # "raised"
    /\ fc_pc = "returned" =>
           /\ Len(fc_log) = Len(CATEGORIES)
           /\ Len(fc_events) = ParsedCount(fc_log, 1)


\* the day after d
NextDay(d) ==
    IF d.day < DaysInMonth(d.year, d.month) THEN [d EXCEPT !.day = d.day + 1]
    ELSE IF d.month < 12 THEN Date(d.year, d.month + 1, 1)
    ELSE Date(d.year + 1, 1, 1)

\* the days today, today + 1, ..., today + n
RECURSIVE Window(_, _)
Window(today, n) ==
    IF n < 0 THEN {} ELSE {today} \cup Window(NextDay(today), n - 1)

\* how often e occurs in list
Occurrences(list, e) == Cardinality({ i \in DOMAIN list : list[i] = e })

\* C11: check_upcoming_cfps(days) returns exactly the persisted events whose
\* cfp_deadline is one of the days today .. today + days, both ends included,
\* in ascending order of cfp_deadline; an event without a deadline, or with a
\* deadline outside the window, is not returned.
C11_UpcomingWindow ==
    nf_pc = "returned" =>
        /\ \A e \in NotifyUniverse :
               Occurrences(nf_upcoming, e) =
                   IF e.cfp_deadline \in Window(nf_today, nf_days)
                   THEN Occurrences(Persisted, e) ELSE 0
        /\ \A i \in 1..(Len(nf_upcoming) - 1) :
               ~DateLT(nf_upcoming[i + 1].cfp_deadline, nf_upcoming[i].cfp_deadline)

\* a store of three events, persisted as: deadline on the last day of the
\* two-week window, deadline the day after it, deadline today; the call returns
\* the third and then the first
C11_Witness ==
    /\ nf_pc = "returned"
    /\ nf_days = 14
    /\ Len(Persisted) = 3
    /\ Persisted[1].cfp_deadline = Date(2025, 3, 6)
    /\ Persisted[2].cfp_deadline = Date(2025, 3, 7)
    /\ Persisted[3].cfp_deadline = nf_today
    /\ nf_upcoming = <<Persisted[3], Persisted[1]>>


\* C12: in every Event returned by enrich_event_cfp, no two entries of topics are
\* equal when compared case-insensitively.
C12_TopicsCaseInsensitiveUnique ==
    en_pc = "returned" =>
        \A i, j \in DOMAIN en_result.topics :
            i # j => Lower(en_result.topics[i]) # Lower(en_result.topics[j])


\* the first position of the input that holds the key of e
FirstSeen(e) == CHOOSE i \in GroupOf(e) : \A j \in GroupOf(e) : i <= j

\* the first position of the input that holds the event e
FirstIndex(e) ==
    CHOOSE i \in DOMAIN dd_events :
        dd_events[i] = e /\ \A j \in DOMAIN dd_events : dd_events[j] = e => i <= j

\* C13 as stated: the output of deduplicate_events lists the keys in the order
\* in which each key first appeared in the input, also when a later, more
\* complete duplicate replaced the kept event of an earlier key.
C13_KeysInFirstAppearanceOrder ==
    dd_pc = "done" =>
        \A i, j \in DOMAIN dd_unique :
            i < j => FirstSeen(dd_unique[i]) < FirstSeen(dd_unique[j])

\* C13 amended: the output of deduplicate_events lists the kept events in the
\* order in which those events themselves appear in the input; a key whose kept
\* event was replaced by a later, more complete duplicate stands where its
\* replacement was appended, after the keys kept before it.
C13_KeptEventsInInputOrder ==
    dd_pc = "done" =>
        \A i, j \in DOMAIN dd_unique :
            i < j => FirstIndex(dd_unique[i]) < FirstIndex(dd_unique[j])

\* the input A, B, A' with A' a more complete duplicate of A: the output is B, A'
C13_Witness ==
    /\ dd_pc = "done"
    /\ Len(dd_events) = 3
    /\ IdentityOf(dd_events[3]) = IdentityOf(dd_events[1])
    /\ IdentityOf(dd_events[2]) # IdentityOf(dd_events[1])
    /\ _event_completeness(dd_events[3]) > _event_completeness(dd_events[1])
    /\ dd_unique = <<dd_events[2], dd_events[3]>>


\* C14: enrich_event_cfp never raises to its caller, whatever the page fetch and
\* the AI extraction did and whatever shape the returned details have (a
\* cfp_deadline that is no valid ISO date string, topics that are no list).
C14_EnrichNeverRaises == en_pc # "raised"


\* an item a response may be expected to carry: an object whose start_date is an
\* ISO date string and whose optional dates, where given, are strings
WellFormed(item) ==
    /\ item.shape = "object"
    /\ item.start_date.t = "str" /\ fromisoformat(item.start_date.s).ok
    /\ item.end_date.t \in {"absent", "str"}
    /\ item.cfp_deadline.t \in {"absent", "str"}

\* C15: an item of the events array that is malformed or lacks a parseable
\* start_date is skipped on its own: every well-formed item of the same
\* response, before or after it, is converted into an Event that search_events
\* returns.
C15_MalformedItemSkippedAlone ==
    se_pc = "returned" =>
        \A k \in DOMAIN se_log :
            se_log[k].kind = "json" =>
                \A i \in DOMAIN se_log[k].items :
                    WellFormed(se_log[k].items[i]) =>
                        \E e \in Range(se_events) :
                            /\ e.name = se_log[k].items[i].name
                            /\ e.start_date =
                                   fromisoformat(se_log[k].items[i].start_date.s).date


\* C16: in one run of collect_all_events store.merge is called exactly once, and
\* only when every adapter task has finished (returned or raised); no result is
\* aggregated before that.  The list handed to merge is the list returned: the
\* aggregated events deduplicated (one event per key), then without the events
\* before the first day of the current month, then ascending by start_date.
C16_MergeOnceAfterPipeline ==
    [][ /\ co_all_events' # co_all_events => AllTasksDone
        /\ co_merges' # co_merges =>
               /\ AllTasksDone
               /\ co_merges = 0 /\ co_merges' = 1
               /\ st_batch' = co_future'
               /\ co_all_events' = SucceededConcat(co_tasks)
               /\ Range(co_unique') \subseteq Range(co_all_events')
               /\ IdentitiesOf(co_unique') = IdentitiesOf(co_all_events')
               /\ \A i, j \in DOMAIN co_unique' :
                      i # j => IdentityOf(co_unique'[i]) # IdentityOf(co_unique'[j])
               /\ Range(co_future') =
                      { e \in Range(co_unique') :
                          DayNumber(e.start_date)
                              >= DayNumber([co_today EXCEPT !.day = 1]) }
               /\ Len(co_future') = Cardinality(Range(co_future'))
               /\ \A i \in 1..(Len(co_future') - 1) :
                      DayNumber(co_future'[i].start_date)
                          <= DayNumber(co_future'[i + 1].start_date)
        /\ co_pc' # co_pc =>
               /\ co_merges' = 1
               /\ co_pc' = "returned" => st_status' = "ok" /\ st_batch' = co_future'
      ]_vars

\* a run of four tasks of which one raised: three events were aggregated, a
\* duplicate was dropped, both kept events pass the cutoff and the sort moved
\* the later-listed, earlier-starting one to the front
C16_Witness ==
    /\ co_pc = "returned"
    /\ co_merges = 1
    /\ \E i \in DOMAIN co_tasks : co_tasks[i].state = "exc"
    /\ Len(co_all_events) = 3
    /\ Len(co_unique) = 2
    /\ co_future = <<co_unique[2], co_unique[1]>>
    /\ st_batch = co_future


\* C17: over any sequence of merge calls a dedup key that is persisted is still
\* persisted after every later merge, and the completeness score of the record
\* persisted for it never decreases.
C17_MonotonicEnrichment ==
    [][ \A before \in {Persisted}, after \in {Persisted'} :
            \A i \in DOMAIN before :
                \E j \in DOMAIN after :
                    /\ IdentityOf(after[j]) = IdentityOf(before[i])
                    /\ _event_completeness(after[j]) >= _event_completeness(before[i])
      ]_vars

\* a successful merge of a batch of bare events onto a store that held a more
\* complete record of their key: the more complete record is still persisted
C17_Witness ==
    /\ st_status = "ok"
    /\ st_batch # <<>>
    /\ \A i \in DOMAIN st_batch :
           /\ _event_completeness(st_batch[i]) = 0
           /\ IdentityOf(st_batch[i]) = IdentityOf(st_batch[1])
    /\ \E j \in DOMAIN Persisted :
           /\ IdentityOf(Persisted[j]) = IdentityOf(st_batch[1])
           /\ _event_completeness(Persisted[j]) = 2

====
